---- MODULE Spec2Model ----
(***************************************************************************)
(* Synchronisation, capacity enforcement and safe artifact replacement of  *)
(* timelapse_creator_testbed.py, for one (domain, camera) partition:       *)
(* the remote image folder, the local mirror directory and the remote      *)
(* timelapse folder, and main()'s run over them.                           *)
(***************************************************************************)
EXTENDS Integers, Sequences, FiniteSets, TLC

(* ------------------------------ bounds -------------------------------- *)
\* largest configured maximum count (MAX_IMAGES_PER_VIDEO, scaled down)
MaxCap == 2
\* image objects the producer may add while the container holds fewer
MaxCapture == 2
\* files the outside producer may add while the mirror holds fewer
MaxSeed == 2
\* runs of main() in one behaviour
MaxRuns == 2
\* failures the collaborators inject in one behaviour
MaxFaults == 1
\* largest number of objects the store returns in one result page
MaxPage == 2
\* videos the timelapse folder holds before the first run
MaxInitVideos == 1
\* runs and injected failures where artifact replacement is explored
MaxArtifactRuns == 2
MaxArtifactFaults == 2
\* calls of a function on its own in one behaviour
MaxCalls == 2
\* entries of each store, and passes, where capacity enforcement is explored
MaxEnforceEntries == 3
MaxEnforceCalls == 1

(* ------------------------------ names --------------------------------- *)
\* A file name is the sequence of its dot-separated components:
\* "a.jpg" is <<"a", "jpg">>, "c" is <<"c">>, ".jpg" is <<"", "jpg">>.
Names ==
    { <<"a", "jpg">>, <<"a", "png">>, <<"b", "JPG">>, <<"c">> }

\* str.lower() on one component (the components the model uses)
Lower(c) ==
    IF c = "JPG" THEN "jpg" ELSE IF c = "PNG" THEN "png" ELSE c

image_extensions ==
    {"jpg", "jpeg", "png", "bmp", "tiff", "tif"}

\* file.lower().endswith(image_extensions)
IsImageFile(name) ==
    Len(name) >= 2 /\ Lower(name[Len(name)]) \in image_extensions

\* (mutation of Stem: the full name is the key)
StemFullName(name) ==
    name

\* os.path.splitext(name)[0]: the name up to its last dot; a name whose only
\* dots are leading dots has no extension and is its own stem.
Stem(name) ==
    IF Len(name) >= 2 /\ \E i \in 1..(Len(name) - 1) : name[i] # ""
    THEN SubSeq(name, 1, Len(name) - 1)
    ELSE name

\* Python's order on the name strings of Names, as a rank
NameRank(name) ==
    CASE name = <<"a", "jpg">> -> 1
      [] name = <<"a", "png">> -> 2
      [] name = <<"b", "JPG">> -> 3
      [] OTHER -> 4

(* --------------------------- sequences -------------------------------- *)
Range(s) ==
    { s[i] : i \in DOMAIN s }

RECURSIVE SortByMtime(_)
\* list.sort(key=lambda x: x['modified']) and orderBy="modifiedTime asc":
\* the records of S as a sequence, oldest first
SortByMtime(S) ==
    IF S = {} THEN << >>
    ELSE LET m == CHOOSE x \in S : \A y \in S : x.mtime <= y.mtime
         IN  <<m>> \o SortByMtime(S \ {m})

RECURSIVE SortByName(_)
\* image_paths.sort(): the names of S as a sequence, in string order
SortByName(S) ==
    IF S = {} THEN << >>
    ELSE LET m == CHOOSE x \in S : \A y \in S : NameRank(x) <= NameRank(y)
         IN  <<m>> \o SortByName(S \ {m})

Reverse(s) ==
    [ i \in 1..Len(s) |-> s[Len(s) + 1 - i] ]

Take(s, n) ==
    SubSeq(s, 1, IF n < Len(s) THEN n ELSE Len(s))

Max0(n) ==
    IF n > 0 THEN n ELSE 0

Min(a, b) ==
    IF a < b THEN a ELSE b

(* ------------------------------ state --------------------------------- *)
VARIABLES
    cfg,          \* the process configuration, fixed for the behaviour
    lim,          \* the limits of the behaviour explored, fixed (not program state)
    remote,       \* image objects of the remote image folder: [id, name, mtime]
    local,        \* files of the local mirror directory: [name, mtime, whole]
    videos,       \* video objects of the remote timelapse folder: [id, mtime]
    runs,         \* runs of main() started
    faults,       \* failures injected by the collaborators
    pc,           \* main()'s position
    local_images, \* selected_pair['local_images']
    gd_images,    \* synchronize_images: google_drive_images of step 1
    new_images,   \* synchronize_images: new_images
    existing,     \* existing_video_info['id'], 0 for None
    attempt,      \* upload_video: attempt
    g,            \* history of the current run (not program state)
    prev,         \* history of the previous run (not program state)
    call,         \* the function called on its own, and the history of the call
    procs,        \* runs of main() under way at the same time: [pc, existing, uploaded]
    ui            \* the dashboard: the folder tree it searches and what it found

vars ==
    << cfg, lim, remote, local, videos, runs, faults,
       pc, local_images, gd_images, new_images, existing, attempt, g, prev, call,
       procs, ui >>

stores ==
    << remote, local, videos >>

(* ------------------------- pure functions ----------------------------- *)
\* get_local_storage_info_by_domain_camera: the image files of the
\* directory, oldest modification time first
LocalInfoFiles(dir) ==
    SortByMtime({ f \in dir : IsImageFile(f.name) })

\* get_all_images_from_folder: the image file names, sorted by name
AllImagesFromFolder(dir) ==
    SortByName({ f.name : f \in { x \in dir : IsImageFile(x.name) } })

\* (mutation of identify_new_images: full names compared, not stems)
IdentifyNewByFullName(gd, files) ==
    LET localNames == { files[i].name : i \in DOMAIN files }
        IsNew(x) == x.name \notin localNames
    IN  SelectSeq(gd, IsNew)

\* (mutation of identify_new_images: only the first new object is identified)
IdentifyNewFirstOnly(gd, files) ==
    LET local_file_names == { Stem(files[i].name) : i \in DOMAIN files }
        IsNew(x) == Stem(x.name) \notin local_file_names
    IN  Take(SelectSeq(gd, IsNew), 1)

\* identify_new_images
identify_new_images(gd, files) ==
    LET local_file_names == { Stem(files[i].name) : i \in DOMAIN files }
        IsNew(x) == Stem(x.name) \notin local_file_names
    IN  SelectSeq(gd, IsNew)

\* (mutation of OverflowOf: the newest entries are chosen)
OverflowNewest(files, max_images) ==
    IF Len(files) <= max_images THEN << >>
    ELSE SubSeq(files, max_images + 1, Len(files))

\* cleanup_old_images / cleanup_google_drive_overflow: the entries to remove
\* from a listing sorted oldest first
OverflowOf(files, max_images) ==
    IF Len(files) <= max_images THEN << >>
    ELSE SubSeq(files, 1, Len(files) - max_images)

\* The remote listing of one un-paged files().list call ordered by
\* modifiedTime: the first result page only.
FirstPageAsc(objs, limit) ==
    Take(SortByMtime(objs), limit)

FirstPageDesc(objs, limit) ==
    Take(Reverse(SortByMtime(objs)), limit)

\* the orders in which an unordered listing can return the objects
Orderings(objs) ==
    { s \in [1..Cardinality(objs) -> objs] : Range(s) = objs }

\* (mutation of UnusedToDelete: the oldest objects are deleted, used or not)
UnusedToDeleteAny(all_images, used_image_names, max_keep_images) ==
    LET n == Max0(Len(all_images) - max_keep_images)
    IN  SubSeq(all_images, Len(all_images) - n + 1, Len(all_images))

\* cleanup_unused_google_drive_images: the objects to delete
UnusedToDelete(all_images, used_image_names, max_keep_images) ==
    LET IsUnused(x) == x.name \notin used_image_names
        unused_images == SelectSeq(all_images, IsUnused)
        n == Min(Max0(Len(all_images) - max_keep_images), Len(unused_images))
    IN  IF all_images = << >> \/ unused_images = << >> \/ n = 0 THEN << >>
        ELSE SubSeq(unused_images, Len(unused_images) - n + 1, Len(unused_images))

\* Modification times (and object ids, which the store hands out) are kept as
\* ranks: only their order is read.  A new entry is newer than every entry of
\* its store.
Fresh(S) ==
    IF S = {} THEN 1
    ELSE (CHOOSE x \in S : \A y \in S : y.mtime <= x.mtime).mtime + 1

RankIn(S, x) ==
    Cardinality({ y \in S : y.mtime <= x.mtime })

\* the same entries with their modification times renumbered 1..n in order
RenumberFiles(S) ==
    { [name |-> x.name, mtime |-> RankIn(S, x), whole |-> x.whole] : x \in S }

RenumberObjects(S) ==
    { [id |-> RankIn(S, x), name |-> x.name, mtime |-> RankIn(S, x)] : x \in S }

RenumberVideos(S) ==
    { [id |-> RankIn(S, x), mtime |-> RankIn(S, x)] : x \in S }

\* (mutation of ApplyDownloads: a downloaded file carries a modification time
\* older than every file of the directory)
ApplyDownloadsBackdated(dir, imgs, out) ==
    { f \in dir : f.name \notin { imgs[i].name : i \in DOMAIN imgs } }
      \cup { [name |-> imgs[i].name, mtime |-> 0, whole |-> TRUE] : i \in DOMAIN imgs }

\* (mutation of ApplyDownloads: nothing is written into a directory that
\* already holds the configured maximum of image files)
ApplyDownloadsCapped(dir, imgs, out) ==
    IF Cardinality({ f \in dir : IsImageFile(f.name) }) >= cfg.maxImages
    THEN dir
    ELSE { f \in dir : f.name \notin { imgs[i].name : i \in DOMAIN imgs } }
           \cup { [name |-> imgs[i].name, mtime |-> Fresh(dir) + i - 1, whole |-> TRUE] :
                    i \in DOMAIN imgs }

RECURSIVE ApplyDownloads(_, _, _)
\* download_new_images: each object in turn is written under its own name;
\* open(file_path, 'wb') creates or truncates the file before the transfer, so
\* a transfer that fails leaves a partial file ("partial"); "nofile" is a
\* failure before the file is created.
ApplyDownloads(dir, imgs, out) ==
    IF imgs = << >> THEN dir
    ELSE LET nm == imgs[1].name
             d2 == IF out[1] = "nofile" THEN dir
                   ELSE { f \in dir : f.name # nm }
                          \cup { [name |-> nm, mtime |-> Fresh(dir), whole |-> out[1] = "ok"] }
         IN  ApplyDownloads(d2, Tail(imgs), Tail(out))

\* (mutation of DownloadedCount: every object of the batch is counted)
DownloadedCountAll(out) ==
    Len(out)

\* download_new_images: downloaded_count, incremented after each transfer
\* that completed
DownloadedCount(out) ==
    Cardinality({ i \in DOMAIN out : out[i] = "ok" })

CountNot(out, v) ==
    Cardinality({ i \in DOMAIN out : out[i] # v })

(* --------------------------- configuration ---------------------------- *)
\* FOLDER_A_ID set, ENABLE_IMAGE_SYNC and SYNC_BEFORE_VIDEO, DELETE_PREVIOUS_VIDEO,
\* CLEANUP_UNUSED_IMAGES, MAX_IMAGES_PER_VIDEO, MAX_GOOGLE_DRIVE_IMAGES, and the
\* number of objects the store puts in one result page
Configs ==
    [ rootSet : BOOLEAN, sync : BOOLEAN, delPrev : BOOLEAN, cleanupUnused : BOOLEAN,
      maxImages : 1..MaxCap, maxKeep : 1..MaxCap, pageLimit : 1..MaxPage ]

NoHistory ==
    [ log |-> << >>, videos0 |-> {}, local0 |-> {}, faults0 |-> 0,
      listedAll |-> FALSE, dlOk |-> 0, dlFail |-> 0, dlOut |-> << >>,
      evLocal |-> 0, evRemote |-> 0, evUnused |-> 0, storeFault |-> FALSE,
      upErr |-> "none", delErr |-> "none" ]

\* no function has been called on its own
NoCall ==
    [ op |-> "none", phase |-> "none", tries |-> 0, sleeps |-> << >>,
      errs |-> << >>, check |-> "none", result |-> "none", n |-> 0,
      rm |-> [local |-> << >>, gd |-> << >>], out |-> [local |-> << >>, gd |-> << >>],
      ret |-> [local_removed |-> 0, gd_removed |-> 0] ]

\* the dashboard has not searched
NoSearch ==
    [ tree |-> << >>, all_videos |-> << >>, searched |-> FALSE ]

CanFault(k) ==
    faults + k <= lim.faults

Logged(tag) ==
    [g EXCEPT !.log = Append(@, tag)]

(* ------------------------------- Init --------------------------------- *)
Quiescent ==
    /\ remote = {}
    /\ local = {}
    /\ videos = {}
    /\ runs = 0
    /\ faults = 0
    /\ pc = "idle"
    /\ local_images = << >>
    /\ gd_images = << >>
    /\ new_images = << >>
    /\ existing = 0
    /\ attempt = 0
    /\ g = NoHistory
    /\ prev = [synced |-> FALSE, quiet |-> FALSE]
    /\ call = NoCall
    /\ procs = << >>
    /\ ui = NoSearch

\* Synchronisation in full: every name, every capacity and page size, with
\* previous-video deletion enabled.
SyncConfigs ==
    { c \in Configs : c.rootSet /\ c.sync /\ c.delPrev
                      /\ (~c.cleanupUnused => c.maxKeep = 1) }

Init ==
    /\ cfg \in SyncConfigs
    /\ lim = [ names |-> Names, captures |-> MaxCapture, seeds |-> MaxSeed,
               videos |-> MaxInitVideos, runs |-> MaxRuns, faults |-> MaxFaults,
               calls |-> 0 ]
    /\ Quiescent

\* Artifact replacement in full: every switch of the configuration and every
\* failure mix, over a mirror and a container of one image.
ArtifactConfigs ==
    { c \in Configs : c.maxImages = 1 /\ c.maxKeep = 1 /\ c.pageLimit = 1 }

InitArtifact ==
    /\ cfg \in ArtifactConfigs
    /\ lim = [ names |-> { <<"a", "jpg">> }, captures |-> 1, seeds |-> 1,
               videos |-> MaxInitVideos, runs |-> MaxArtifactRuns,
               faults |-> MaxArtifactFaults, calls |-> 0 ]
    /\ Quiescent

(* ---------------------------- environment ----------------------------- *)
\* The image producer uploads a new image object into the remote image folder.
Capture ==
    /\ pc = "idle"
    /\ runs < lim.runs
    /\ Cardinality(remote) < lim.captures
    /\ \E nm \in lim.names :
         remote' = remote \cup { [id |-> Fresh(remote), name |-> nm, mtime |-> Fresh(remote)] }
    /\ prev' = [prev EXCEPT !.quiet = FALSE]
    /\ UNCHANGED << procs, ui, call, cfg, lim, local, videos, runs, faults, pc,
                    local_images, gd_images, new_images, existing, attempt, g >>

\* Before the first run an outside producer puts a file into the mirror directory.
SeedLocal ==
    /\ pc = "idle"
    /\ runs = 0
    /\ Cardinality(local) < lim.seeds
    /\ \E nm \in lim.names \ { f.name : f \in local } :
         local' = local \cup { [name |-> nm, mtime |-> Fresh(local), whole |-> TRUE] }
    /\ UNCHANGED << procs, ui, call, cfg, lim, remote, videos, runs, faults, pc,
                    local_images, gd_images, new_images, existing, attempt, g, prev >>

\* Before the first run the timelapse folder may already hold a video.
SeedVideo ==
    /\ pc = "idle"
    /\ runs = 0
    /\ Cardinality(videos) < lim.videos
    /\ videos' = videos \cup { [id |-> Fresh(videos), mtime |-> Fresh(videos)] }
    /\ UNCHANGED << procs, ui, call, cfg, lim, remote, local, runs, faults, pc,
                    local_images, gd_images, new_images, existing, attempt, g, prev >>

(* ------------------------------- main --------------------------------- *)
\* main() is invoked.
StartRun ==
    /\ pc = "idle"
    /\ runs < lim.runs
    /\ runs' = runs + 1
    /\ pc' = "discover"
    /\ g' = [NoHistory EXCEPT !.videos0 = videos, !.local0 = local, !.faults0 = faults]
    /\ UNCHANGED << procs, ui, call, cfg, lim, stores, faults,
                    local_images, gd_images, new_images, existing, attempt, prev >>

\* The process has exited: its variables are gone, the stores remain.
Exit ==
    /\ pc = "done"
    /\ pc' = "idle"
    /\ remote' = RenumberObjects(remote)
    /\ local' = RenumberFiles(local)
    /\ videos' = RenumberVideos(videos)
    /\ prev' = [ synced |-> "remote_enforce" \in Range(g.log), quiet |-> TRUE ]
    /\ g' = NoHistory
    /\ local_images' = << >>
    /\ gd_images' = << >>
    /\ new_images' = << >>
    /\ existing' = 0
    /\ attempt' = 0
    /\ UNCHANGED << procs, ui, call, cfg, lim, runs, faults >>

\* (mutation of Discover: FOLDER_A_ID is not looked at)
DiscoverWithoutRootCheck ==
    /\ pc = "discover"
    /\ \/ /\ CanFault(1)
          /\ faults' = faults + 1
          /\ pc' = "done"
          /\ g' = Logged("startup_failed")
          /\ UNCHANGED local_images
       \/ /\ local_images' = AllImagesFromFolder(local)
          /\ IF local_images' = << >>
             THEN pc' = "done" /\ g' = Logged("no_local_images")
             ELSE pc' = (IF cfg.sync THEN "sync_list" ELSE "note") /\ g' = g
          /\ UNCHANGED faults
    /\ UNCHANGED << procs, ui, call, cfg, lim, stores, runs, gd_images, new_images,
                    existing, attempt, prev >>

\* main: configuration check, authenticate, verify_folder_access, list_subfolders,
\* discovery of the partition's local images, find_or_create_folder(timelapse)
Discover ==
    /\ pc = "discover"
    /\ \/ /\ ~cfg.rootSet
          /\ pc' = "done"
          /\ g' = Logged("no_root")
          /\ UNCHANGED << local_images, faults >>
       \/ /\ cfg.rootSet
          /\ CanFault(1)
          /\ faults' = faults + 1
          /\ pc' = "done"
          /\ g' = Logged("startup_failed")
          /\ UNCHANGED local_images
       \/ /\ cfg.rootSet
          /\ local_images' = AllImagesFromFolder(local)
          /\ IF local_images' = << >>
             THEN pc' = "done" /\ g' = Logged("no_local_images")
             ELSE pc' = (IF cfg.sync THEN "sync_list" ELSE "note") /\ g' = g
          /\ UNCHANGED faults
    /\ UNCHANGED << procs, ui, call, cfg, lim, stores, runs, gd_images, new_images, existing, attempt, prev >>

(* ------------------------ synchronize_images -------------------------- *)
\* get_google_drive_images when the fetch of some page fails: the loop breaks
\* and the pages fetched so far are returned as the listing.  A result page
\* holds at most the requested size and the store may return fewer; limit is
\* the number of objects the store puts in one page.
PartialListings(ord, limit) ==
    LET pages == IF Len(ord) = 0 THEN 1 ELSE (Len(ord) + limit - 1) \div limit
    IN  { Take(ord, k * limit) : k \in 0..(pages - 1) }

\* (mutation of DeleteAll: nothing is deleted)
DeleteNone(store, rm, failed) ==
    store

\* the store after deleting the entries of rm, those at the positions in
\* failed excepted (their deletion raised)
DeleteAll(store, rm, failed) ==
    store \ { rm[i] : i \in (DOMAIN rm) \ failed }

\* (mutation of RemoteOverflowListing: the whole container is listed)
WholeListingAsc(objs, limit) ==
    SortByMtime(objs)

\* cleanup_google_drive_overflow: all_images, one files().list call ordered by
\* modifiedTime asc, without pageToken loop
RemoteOverflowListing(objs, limit) ==
    FirstPageAsc(objs, limit)

\* Step 1 and 2: both listings, identify_new_images
SyncList ==
    /\ pc = "sync_list"
    /\ \E ord \in Orderings(remote), faulted \in BOOLEAN :
         \E lst \in (IF faulted THEN PartialListings(ord, cfg.pageLimit) ELSE {ord}) :
           /\ faulted => CanFault(1)
           /\ faults' = faults + (IF faulted THEN 1 ELSE 0)
           /\ gd_images' = lst
           /\ IF lst = << >>
              THEN /\ new_images' = << >>
                   /\ pc' = "note"
                   /\ g' = [Logged("sync_skipped") EXCEPT !.listedAll = ~faulted]
              ELSE /\ new_images' = identify_new_images(lst, LocalInfoFiles(local))
                   /\ pc' = "sync_download"
                   /\ g' = [Logged("list") EXCEPT !.listedAll = ~faulted]
    /\ UNCHANGED << procs, ui, call, cfg, lim, stores, runs, local_images, existing, attempt, prev >>

\* (mutation of SyncDownload: the run goes on when synchronisation failed)
SyncDownloadOrGoOn ==
    /\ pc = "sync_download"
    /\ \/ /\ new_images # << >>
          /\ CanFault(1)
          /\ faults' = faults + 1
          /\ pc' = "note"
          /\ g' = Logged("sync_failed")
          /\ UNCHANGED local
       \/ \E out \in [1..Len(new_images) -> {"ok", "partial", "nofile"}] :
            /\ CanFault(CountNot(out, "ok"))
            /\ faults' = faults + CountNot(out, "ok")
            /\ local' = ApplyDownloads(local, new_images, out)
            /\ pc' = "sync_local"
            /\ g' = [Logged("download") EXCEPT
                       !.dlOk = DownloadedCount(out),
                       !.dlFail = CountNot(out, "ok"),
                       !.dlOut = out]
    /\ UNCHANGED << procs, ui, call, cfg, lim, remote, videos, runs,
                    local_images, gd_images, new_images, existing, attempt, prev >>

\* Step 3: os.makedirs and download_new_images
SyncDownload ==
    /\ pc = "sync_download"
    /\ \/ /\ new_images # << >>
          /\ CanFault(1)
          /\ faults' = faults + 1
          /\ pc' = "done"
          /\ g' = Logged("sync_failed")
          /\ UNCHANGED local
       \/ \E out \in [1..Len(new_images) -> {"ok", "partial", "nofile"}] :
            /\ CanFault(CountNot(out, "ok"))
            /\ faults' = faults + CountNot(out, "ok")
            /\ local' = ApplyDownloads(local, new_images, out)
            /\ pc' = "sync_local"
            /\ g' = [Logged("download") EXCEPT
                       !.dlOk = DownloadedCount(out),
                       !.dlFail = CountNot(out, "ok"),
                       !.dlOut = out]
    /\ UNCHANGED << procs, ui, call, cfg, lim, remote, videos, runs,
                    local_images, gd_images, new_images, existing, attempt, prev >>

\* Step 4 and 5: local listing after download, cleanup_old_images
SyncLocal ==
    /\ pc = "sync_local"
    /\ LET rm == OverflowOf(LocalInfoFiles(local), cfg.maxImages)
       IN  \E failed \in SUBSET (DOMAIN rm) :
             /\ CanFault(Cardinality(failed))
             /\ faults' = faults + Cardinality(failed)
             /\ local' = DeleteAll(local, rm, failed)
             /\ g' = [Logged("local_enforce") EXCEPT
                        !.evLocal = @ + Len(rm) - Cardinality(failed),
                        !.storeFault = @ \/ failed # {}]
    /\ pc' = "sync_remote"
    /\ UNCHANGED << procs, ui, call, cfg, lim, remote, videos, runs,
                    local_images, gd_images, new_images, existing, attempt, prev >>

\* get_google_drive_images for a count, then cleanup_google_drive_overflow when
\* the count exceeds max_images: the remote container afterwards, the number of
\* failures injected and the number of objects deleted
RemoteEnforceOutcomes(objs, max_images, limit, budget) ==
    LET ord == SortByMtime(objs)
        counts == { Len(ord) } \cup
                  (IF budget >= 1
                   THEN { Len(l) : l \in PartialListings(ord, limit) }
                   ELSE {})
    IN  UNION { IF n <= max_images
                THEN { [store |-> objs, nf |-> (IF n = Len(ord) THEN 0 ELSE 1), del |-> 0] }
                ELSE LET cost == IF n = Len(ord) THEN 0 ELSE 1
                         rm == OverflowOf(RemoteOverflowListing(objs, limit), max_images)
                     IN  { [store |-> DeleteAll(objs, rm, failed),
                            nf |-> cost + Cardinality(failed),
                            del |-> Len(rm) - Cardinality(failed)] :
                           failed \in { F \in SUBSET (DOMAIN rm) :
                                          cost + Cardinality(F) <= budget } }
              : n \in counts }

\* Step 6 and 7: remote count, cleanup_google_drive_overflow, final listings
SyncRemote ==
    /\ pc = "sync_remote"
    /\ \E o \in RemoteEnforceOutcomes(remote, cfg.maxImages, cfg.pageLimit,
                                      lim.faults - faults) :
         /\ remote' = o.store
         /\ faults' = faults + o.nf
         /\ g' = [Logged("remote_enforce") EXCEPT
                    !.evRemote = @ + o.del, !.storeFault = @ \/ o.nf > 0]
    /\ pc' = "note"
    /\ UNCHANGED << procs, ui, call, cfg, lim, local, videos, runs,
                    local_images, gd_images, new_images, existing, attempt, prev >>

(* ----------------------- artifact replacement ------------------------- *)
\* image_paths: the local images discovered at startup, limited to the first
\* MAX_IMAGES_PER_VIDEO
ImagePaths ==
    Take(local_images, cfg.maxImages)

\* used_image_names
UsedImageNames ==
    Range(ImagePaths)

\* (mutation of LatestVideoId: the oldest video is the one found)
OldestVideoId(vs) ==
    IF vs = {} THEN 0
    ELSE (CHOOSE v \in vs : \A w \in vs : v.mtime <= w.mtime).id

\* get_latest_timelapse_video_info: orderBy modifiedTime desc, pageSize 1
LatestVideoId(vs) ==
    IF vs = {} THEN 0
    ELSE (CHOOSE v \in vs : \A w \in vs : w.mtime <= v.mtime).id

\* (mutation of NoteExisting: the old video is deleted as soon as it is found)
NoteExistingDeleteFirst ==
    /\ pc = "note"
    /\ existing' = (IF cfg.delPrev THEN LatestVideoId(videos) ELSE 0)
    /\ videos' = { v \in videos : v.id # existing' }
    /\ g' = Logged("note")
    /\ pc' = "encode"
    /\ UNCHANGED << procs, ui, call, cfg, lim, remote, local, runs, faults,
                    local_images, gd_images, new_images, attempt, prev >>

\* Step 3: test_service_account_permissions, get_latest_timelapse_video_info
NoteExisting ==
    /\ pc = "note"
    /\ \/ /\ existing' = (IF cfg.delPrev THEN LatestVideoId(videos) ELSE 0)
          /\ UNCHANGED faults
       \/ /\ cfg.delPrev
          /\ CanFault(1)
          /\ faults' = faults + 1
          /\ existing' = 0
    /\ g' = Logged("note")
    /\ pc' = "encode"
    /\ UNCHANGED << procs, ui, call, cfg, lim, stores, runs, local_images, gd_images, new_images,
                    attempt, prev >>

\* the paths handed to the encoder whose file is no longer in the mirror
MissingInputs ==
    { n \in UsedImageNames : \A f \in local : f.name # n }

\* (mutation of Encode: the run goes on to the upload when the encoder failed)
EncodeThenUploadAnyway ==
    /\ pc = "encode"
    /\ \/ /\ g' = Logged("build")
          /\ UNCHANGED faults
       \/ /\ CanFault(1)
          /\ faults' = faults + 1
          /\ g' = Logged("build_failed")
    /\ pc' = "upload"
    /\ attempt' = 0
    /\ UNCHANGED << procs, ui, call, cfg, lim, stores, runs, local_images, gd_images, new_images,
                    existing, prev >>

\* Step 4: create_video returns True, or False when ffmpeg exits non-zero or
\* leaves no output; ffmpeg may also fail because a listed file is gone
Encode ==
    /\ pc = "encode"
    /\ \/ /\ pc' = "upload"
          /\ g' = Logged("build")
          /\ UNCHANGED faults
       \/ /\ CanFault(1)
          /\ faults' = faults + 1
          /\ pc' = "summary"
          /\ g' = Logged("build_failed")
       \/ /\ MissingInputs # {}
          /\ pc' = "summary"
          /\ g' = Logged("build_failed")
          /\ UNCHANGED faults
    /\ attempt' = 0
    /\ UNCHANGED << procs, ui, call, cfg, lim, stores, runs, local_images, gd_images, new_images,
                    existing, prev >>

\* upload_video: max_retries
max_retries == 3

\* upload_video: the keywords of a retryable error message
retry_keywords ==
    {"ssl", "eof", "protocol", "connection", "timeout"}

\* the errors an upload attempt can raise, each named by the word its message
\* carries: a network timeout, a rate-limit response of the store
UploadErrors ==
    {"timeout", "rate_limit"}

\* (mutation of IsRetryable: every error is retried)
IsRetryableAlways(err) ==
    TRUE

\* upload_video: any(keyword in error_msg.lower() for keyword in [...])
IsRetryable(err) ==
    err \in retry_keywords

\* (mutation of Upload: when the upload failed the run goes on to the
\* unused-input cleanup)
UploadOrCleanup ==
    /\ pc = "upload"
    /\ \/ /\ videos' = videos \cup { [id |-> Fresh(videos), mtime |-> Fresh(videos)] }
          /\ pc' = "delete_old"
          /\ g' = Logged("upload")
          /\ UNCHANGED << attempt, faults >>
       \/ \E err \in UploadErrors :
            /\ attempt > 0 \/ CanFault(1)
            /\ faults' = faults + (IF attempt = 0 THEN 1 ELSE 0)
            /\ IF IsRetryable(err) /\ attempt < max_retries - 1
               THEN /\ attempt' = attempt + 1
                    /\ g' = [g EXCEPT !.upErr = err]
                    /\ UNCHANGED pc
               ELSE /\ pc' = "cleanup_unused"
                    /\ g' = [Logged("upload_failed") EXCEPT !.upErr = err]
                    /\ UNCHANGED attempt
            /\ UNCHANGED videos
    /\ UNCHANGED << procs, ui, call, cfg, lim, remote, local, runs,
                    local_images, gd_images, new_images, existing, prev >>

\* Step 5: upload_video, one attempt of its retry loop
Upload ==
    /\ pc = "upload"
    /\ \/ /\ videos' = videos \cup { [id |-> Fresh(videos), mtime |-> Fresh(videos)] }
          /\ pc' = "delete_old"
          /\ g' = Logged("upload")
          /\ UNCHANGED << attempt, faults >>
       \/ \E err \in UploadErrors :
            /\ attempt > 0 \/ CanFault(1)
            /\ faults' = faults + (IF attempt = 0 THEN 1 ELSE 0)
            /\ IF IsRetryable(err) /\ attempt < max_retries - 1
               THEN /\ attempt' = attempt + 1
                    /\ g' = [g EXCEPT !.upErr = err]
                    /\ UNCHANGED pc
               ELSE /\ pc' = "summary"
                    /\ g' = [Logged("upload_failed") EXCEPT !.upErr = err]
                    /\ UNCHANGED attempt
            /\ UNCHANGED videos
    /\ UNCHANGED << procs, ui, call, cfg, lim, remote, local, runs,
                    local_images, gd_images, new_images, existing, prev >>

\* (mutation of DeleteOld: every video the folder holds is deleted)
DeleteOldAll ==
    /\ pc = "delete_old"
    /\ IF cfg.delPrev /\ existing # 0
       THEN /\ videos' = {}
            /\ g' = Logged("delete_call")
       ELSE UNCHANGED << videos, g >>
    /\ pc' = "cleanup_unused"
    /\ UNCHANGED << procs, ui, call, cfg, lim, remote, local, runs, faults,
                    local_images, gd_images, new_images, existing, attempt, prev >>

\* delete_specific_timelapse_video returns False or raises: permission denied
\* (403), rate limit on the call and on its one retry (429), any other error
DeleteErrors ==
    {"forbidden", "rate_limit", "other"}

\* (mutation of DeleteOld: a failed deletion aborts the run)
DeleteOldOrAbort ==
    /\ pc = "delete_old"
    /\ IF cfg.delPrev /\ existing # 0
       THEN \/ /\ videos' = { v \in videos : v.id # existing }
               /\ g' = Logged("delete_call")
               /\ pc' = "cleanup_unused"
               /\ UNCHANGED faults
            \/ \E err \in DeleteErrors :
                 /\ CanFault(1)
                 /\ faults' = faults + 1
                 /\ g' = [[g EXCEPT !.log = @ \o <<"delete_call", "delete_failed">>]
                           EXCEPT !.delErr = err]
                 /\ pc' = "done"
                 /\ UNCHANGED videos
       ELSE UNCHANGED << videos, g, faults >> /\ pc' = "cleanup_unused"
    /\ UNCHANGED << procs, ui, call, cfg, lim, remote, local, runs,
                    local_images, gd_images, new_images, existing, attempt, prev >>

\* (mutation of DeleteOld: the deletion does not look at DELETE_PREVIOUS_VIDEO
\* and removes every video but the newest)
DeleteOldIgnoringSwitch ==
    /\ pc = "delete_old"
    /\ videos' = { v \in videos : v.id = LatestVideoId(videos) }
    /\ g' = Logged("delete_call")
    /\ pc' = "cleanup_unused"
    /\ UNCHANGED << procs, ui, call, cfg, lim, remote, local, runs, faults,
                    local_images, gd_images, new_images, existing, attempt, prev >>

\* Step 6: delete_specific_timelapse_video(existing_video_info['id'])
DeleteOld ==
    /\ pc = "delete_old"
    /\ IF cfg.delPrev /\ existing # 0
       THEN \/ /\ videos' = { v \in videos : v.id # existing }
               /\ g' = Logged("delete_call")
               /\ UNCHANGED faults
            \/ \E err \in DeleteErrors :
                 /\ CanFault(1)
                 /\ faults' = faults + 1
                 /\ g' = [[g EXCEPT !.log = @ \o <<"delete_call", "delete_failed">>]
                           EXCEPT !.delErr = err]
                 /\ UNCHANGED videos
       ELSE UNCHANGED << videos, g, faults >>
    /\ pc' = "cleanup_unused"
    /\ UNCHANGED << procs, ui, call, cfg, lim, remote, local, runs,
                    local_images, gd_images, new_images, existing, attempt, prev >>

\* Step 7: cleanup_unused_google_drive_images; image_folder_id is bound only
\* when synchronisation ran, otherwise the call raises and is skipped
CleanupUnused ==
    /\ pc = "cleanup_unused"
    /\ IF cfg.cleanupUnused /\ cfg.sync
       THEN LET rm == UnusedToDelete(FirstPageDesc(remote, cfg.pageLimit),
                                     UsedImageNames, cfg.maxKeep)
            IN  \E failed \in SUBSET (DOMAIN rm) :
                  /\ CanFault(Cardinality(failed))
                  /\ faults' = faults + Cardinality(failed)
                  /\ remote' = DeleteAll(remote, rm, failed)
                  /\ g' = [Logged("unused_cleanup") EXCEPT
                             !.evUnused = Len(rm) - Cardinality(failed),
                             !.storeFault = @ \/ failed # {}]
       ELSE UNCHANGED << remote, g, faults >>
    /\ pc' = "overflow"
    /\ UNCHANGED << procs, ui, call, cfg, lim, local, videos, runs,
                    local_images, gd_images, new_images, existing, attempt, prev >>

\* (mutation of Overflow: the remote container is enforced before the mirror)
OverflowRemoteFirst ==
    /\ pc = "overflow"
    /\ LET rm == OverflowOf(LocalInfoFiles(local), cfg.maxImages)
       IN  /\ local' = DeleteAll(local, rm, {})
           /\ \E o \in RemoteEnforceOutcomes(remote, cfg.maxImages, cfg.pageLimit, 0) :
                /\ remote' = o.store
                /\ g' = [[g EXCEPT !.log = @ \o <<"final_remote_enforce",
                                                  "final_local_enforce">>]
                          EXCEPT !.evLocal = @ + Len(rm), !.evRemote = @ + o.del]
    /\ pc' = "summary"
    /\ UNCHANGED << procs, ui, call, cfg, lim, videos, runs, faults,
                    local_images, gd_images, new_images, existing, attempt, prev >>

\* Step 8: cleanup_overflow_images, skipped like step 7 without image_folder_id
Overflow ==
    /\ pc = "overflow"
    /\ IF cfg.sync
       THEN LET rm == OverflowOf(LocalInfoFiles(local), cfg.maxImages)
            IN  \E failed \in SUBSET (DOMAIN rm) :
                  /\ CanFault(Cardinality(failed))
                  /\ local' = DeleteAll(local, rm, failed)
                  /\ \E o \in RemoteEnforceOutcomes(remote, cfg.maxImages, cfg.pageLimit,
                                    lim.faults - faults - Cardinality(failed)) :
                       /\ remote' = o.store
                       /\ faults' = faults + Cardinality(failed) + o.nf
                       /\ g' = [[g EXCEPT !.log = @ \o <<"final_local_enforce",
                                                         "final_remote_enforce">>]
                                 EXCEPT !.evLocal = @ + Len(rm) - Cardinality(failed),
                                        !.evRemote = @ + o.del,
                                        !.storeFault = @ \/ failed # {} \/ o.nf > 0]
       ELSE UNCHANGED << local, remote, g, faults >>
    /\ pc' = "summary"
    /\ UNCHANGED << procs, ui, call, cfg, lim, videos, runs,
                    local_images, gd_images, new_images, existing, attempt, prev >>

\* the final summary
Summary ==
    /\ pc = "summary"
    /\ g' = Logged("summary")
    /\ pc' = "done"
    /\ UNCHANGED << procs, ui, call, cfg, lim, stores, runs, faults,
                    local_images, gd_images, new_images, existing, attempt, prev >>

Next ==
    \/ Capture
    \/ SeedLocal
    \/ SeedVideo
    \/ StartRun
    \/ Exit
    \/ Discover
    \/ SyncList
    \/ SyncDownload
    \/ SyncLocal
    \/ SyncRemote
    \/ NoteExisting
    \/ Encode
    \/ Upload
    \/ DeleteOld
    \/ CleanupUnused
    \/ Overflow
    \/ Summary

Spec ==
    Init /\ [][Next]_vars

SpecArtifact ==
    InitArtifact /\ [][Next]_vars

(* ------------------------ runs that must end -------------------------- *)
\* the bounds of the runs checked for progress
MaxLiveRuns == 1

MaxLiveFaults == 1

\* the steps of main() once the process is started: each of them returns when
\* the calls it makes return
MainStep ==
    \/ Discover
    \/ SyncList
    \/ SyncDownload
    \/ SyncLocal
    \/ SyncRemote
    \/ NoteExisting
    \/ Encode
    \/ Upload
    \/ DeleteOld
    \/ CleanupUnused
    \/ Overflow
    \/ Summary

\* every configuration over a small capacity, two image names so that the
\* remote image folder can hold an object the mirror does not have
InitLive ==
    /\ cfg \in ArtifactConfigs
    /\ lim = [ names |-> { <<"a", "jpg">>, <<"b", "jpg">> }, captures |-> 1, seeds |-> 1,
               videos |-> MaxInitVideos, runs |-> MaxLiveRuns,
               faults |-> MaxLiveFaults, calls |-> 0 ]
    /\ Quiescent

\* a started run of main() keeps taking steps
SpecLive ==
    InitLive /\ [][Next]_vars /\ WF_vars(MainStep)

(* --------------------- the remote calls on their own ------------------ *)
\* Each function that talks to the store, called on its own against a
\* timelapse folder, with every answer the store can give to each request.

\* what a request can raise: HttpError with status 403, 404, 429, 500; an
\* exception whose message names SSL; one whose message names timeout; any
\* other exception (none of the words a retry loop looks for)
CallErrors ==
    {"forbidden", "not_found", "rate_limit", "server_error", "ssl", "timeout", "other"}

\* e.resp.status of an HttpError, 0 for an exception that is not an HttpError
HttpStatus(err) ==
    CASE err = "forbidden" -> 403
      [] err = "not_found" -> 404
      [] err = "rate_limit" -> 429
      [] err = "server_error" -> 500
      [] OTHER -> 0

\* except HttpError
IsHttpError(err) ==
    HttpStatus(err) # 0

\* verify_folder_access, list_subfolders:
\* "EOF" in str(e) or "SSL" in str(e) or "protocol" in str(e)
IsNetworkError(err) ==
    err \in {"eof", "ssl", "protocol"}

\* (mutation of StartupWait: the wait doubles from 2 seconds)
StartupWaitDoubling(k) ==
    2 * (2 ^ k)

\* authenticate, verify_folder_access, list_subfolders: wait_time
StartupWait(k) ==
    (2 ^ k) + 1

\* upload_video: base_delay
base_delay == 2

\* upload_video: delay
UploadDelay(k) ==
    base_delay * (2 ^ k)

\* (mutation of delete_max_retries: the delete loop allows as many attempts
\* as the upload loop)
delete_max_retries_as_upload ==
    max_retries

\* delete_latest_timelapse_video: max_retries of its delete loop
delete_max_retries == 2

\* the functions called
Calls ==
    { "authenticate", "verify_folder_access", "list_subfolders", "upload_video",
      "delete_specific_timelapse_video", "delete_latest_timelapse_video" }

\* the first request each function makes
FirstPhase(op) ==
    CASE op = "delete_specific_timelapse_video" -> "check"
      [] op = "delete_latest_timelapse_video" -> "folder"
      [] OTHER -> "try"

\* the video the call is about is in the folder (not deleted, not trashed)
TargetPresent ==
    \E v \in videos : v.id = existing

\* the answers of the store to files().get on the video: its metadata, or that
\* it is trashed, or an error; 404 when it is not there
GetAnswers ==
    (IF TargetPresent THEN {"ok"} ELSE {"not_found", "trashed"})
        \cup (CallErrors \ {"not_found"})

\* the answers of the store to files().delete on the video
DeleteAnswers ==
    (IF TargetPresent THEN {"ok"} ELSE {"not_found"})
        \cup (CallErrors \ {"not_found"})

\* the function returns res (or raises), its request having answered a
Returned(res, a) ==
    [call EXCEPT !.result = res, !.tries = @ + 1, !.errs = Append(@, a)]

\* the function sleeps wait seconds and goes round its loop again
Retried(a, wait) ==
    [call EXCEPT !.tries = @ + 1, !.errs = Append(@, a), !.sleeps = Append(@, wait)]

\* a request that is not an attempt of the operation itself (a check before
\* it) has answered a; the function goes on to the next request
Checked(a, phase) ==
    [call EXCEPT !.phase = phase, !.check = a]

\* a check has answered a and the function returns res
CheckedReturned(a, res) ==
    [call EXCEPT !.result = res, !.check = a]

\* One of the functions is called; the video id handed to
\* delete_specific_timelapse_video is one a video has or had.
Invoke ==
    /\ pc = "idle"
    /\ call.op = "none" \/ call.result # "none"
    /\ call.n < lim.calls
    /\ \E op \in Calls, id \in 1..(MaxInitVideos + 1) :
         /\ call' = [NoCall EXCEPT !.op = op, !.phase = FirstPhase(op), !.n = call.n + 1]
         /\ existing' = (IF op = "delete_specific_timelapse_video" THEN id ELSE 0)
    /\ attempt' = 0
    /\ UNCHANGED << procs, ui, cfg, lim, stores, runs, faults, pc,
                    local_images, gd_images, new_images, g, prev >>

\* While a call is under way someone else removes a video from the timelapse
\* folder.
VideoRemoved ==
    /\ pc = "idle"
    /\ call.op # "none" /\ call.result = "none"
    /\ \E v \in videos : videos' = videos \ {v}
    /\ UNCHANGED << procs, ui, call, cfg, lim, remote, local, runs, faults, pc,
                    local_images, gd_images, new_images, existing, attempt, g, prev >>

\* authenticate: one round of its loop; every exception is retried
Authenticate ==
    /\ call.op = "authenticate" /\ call.result = "none"
    /\ \E a \in {"ok"} \cup CallErrors :
         IF a = "ok"
         THEN call' = Returned("service", a) /\ UNCHANGED attempt
         ELSE IF attempt < max_retries - 1
              THEN call' = Retried(a, StartupWait(attempt)) /\ attempt' = attempt + 1
              ELSE call' = Returned("raise", a) /\ UNCHANGED attempt
    /\ UNCHANGED << procs, ui, cfg, lim, stores, runs, faults, pc,
                    local_images, gd_images, new_images, existing, g, prev >>

\* verify_folder_access: one round of its loop
VerifyFolderAccess ==
    /\ call.op = "verify_folder_access" /\ call.result = "none"
    /\ \E a \in {"ok"} \cup CallErrors :
         IF a = "ok"
         THEN call' = Returned("True", a) /\ UNCHANGED attempt
         ELSE IF (IsHttpError(a) \/ IsNetworkError(a)) /\ attempt < max_retries - 1
              THEN call' = Retried(a, StartupWait(attempt)) /\ attempt' = attempt + 1
              ELSE call' = Returned("False", a) /\ UNCHANGED attempt
    /\ UNCHANGED << procs, ui, cfg, lim, stores, runs, faults, pc,
                    local_images, gd_images, new_images, existing, g, prev >>

\* list_subfolders: one round of its loop; a failure returns the empty list
ListSubfolders ==
    /\ call.op = "list_subfolders" /\ call.result = "none"
    /\ \E a \in {"ok"} \cup CallErrors :
         IF a = "ok"
         THEN call' = Returned("folders", a) /\ UNCHANGED attempt
         ELSE IF (IsHttpError(a) \/ IsNetworkError(a)) /\ attempt < max_retries - 1
              THEN call' = Retried(a, StartupWait(attempt)) /\ attempt' = attempt + 1
              ELSE call' = Returned("[]", a) /\ UNCHANGED attempt
    /\ UNCHANGED << procs, ui, cfg, lim, stores, runs, faults, pc,
                    local_images, gd_images, new_images, existing, g, prev >>

\* upload_video: one round of its loop
UploadVideo ==
    /\ call.op = "upload_video" /\ call.result = "none"
    /\ \E a \in {"ok"} \cup CallErrors :
         IF a = "ok"
         THEN /\ call' = Returned("True", a)
              /\ videos' = videos \cup { [id |-> Fresh(videos), mtime |-> Fresh(videos)] }
              /\ UNCHANGED attempt
         ELSE /\ IF IsRetryable(a) /\ attempt < max_retries - 1
                 THEN call' = Retried(a, UploadDelay(attempt)) /\ attempt' = attempt + 1
                 ELSE call' = Returned("raise", a) /\ UNCHANGED attempt
              /\ UNCHANGED videos
    /\ UNCHANGED << procs, ui, cfg, lim, remote, local, runs, faults, pc,
                    local_images, gd_images, new_images, existing, g, prev >>

\* delete_specific_timelapse_video: the files().get before the deletion, the
\* files().delete, and its one retry after a rate-limit answer
DeleteSpecific ==
    /\ call.op = "delete_specific_timelapse_video" /\ call.result = "none"
    /\ \/ /\ call.phase = "check"
          /\ \E a \in GetAnswers :
               call' = (IF a \in {"trashed", "not_found"} THEN CheckedReturned(a, "True")
                        ELSE IF a = "ok" \/ IsHttpError(a) THEN Checked(a, "delete")
                        ELSE CheckedReturned(a, "False"))
          /\ UNCHANGED videos
       \/ /\ call.phase = "delete"
          /\ \E a \in DeleteAnswers :
               /\ call' = (IF a \in {"ok", "not_found"} THEN Returned("True", a)
                           ELSE IF a = "rate_limit"
                                THEN [Retried(a, 2) EXCEPT !.phase = "retry"]
                                ELSE Returned("False", a))
               /\ videos' = (IF a = "ok" THEN { v \in videos : v.id # existing } ELSE videos)
       \/ /\ call.phase = "retry"
          /\ \E a \in DeleteAnswers :
               /\ call' = Returned(IF a = "ok" THEN "True" ELSE "False", a)
               /\ videos' = (IF a = "ok" THEN { v \in videos : v.id # existing } ELSE videos)
    /\ UNCHANGED << procs, ui, cfg, lim, remote, local, runs, faults, pc,
                    local_images, gd_images, new_images, existing, attempt, g, prev >>

\* delete_latest_timelapse_video: the permission check of the folder, the
\* listing of its videos, the files().get on the latest, and the delete loop
DeleteLatest ==
    /\ call.op = "delete_latest_timelapse_video" /\ call.result = "none"
    /\ \/ /\ call.phase = "folder"
          /\ \E a \in {"ok", "cannot_delete_children"} \cup CallErrors :
               call' = (IF a = "cannot_delete_children" THEN CheckedReturned(a, "False")
                        ELSE Checked(a, "list"))
          /\ UNCHANGED << videos, existing, attempt >>
       \/ /\ call.phase = "list"
          /\ \E a \in {"ok"} \cup CallErrors :
               IF a = "ok" /\ videos # {}
               THEN call' = Checked(a, "verify") /\ existing' = LatestVideoId(videos)
               ELSE call' = CheckedReturned(a, "False") /\ UNCHANGED existing
          /\ UNCHANGED << videos, attempt >>
       \/ /\ call.phase = "verify"
          /\ \E a \in GetAnswers :
               call' = (IF a = "ok" \/ a \in {"rate_limit", "server_error"}
                        THEN Checked(a, "delete")
                        ELSE CheckedReturned(a, "False"))
          /\ UNCHANGED << videos, existing, attempt >>
       \/ /\ call.phase = "delete"
          /\ \E a \in DeleteAnswers :
               /\ IF a = "ok"
                  THEN call' = Returned("True", a) /\ UNCHANGED attempt
                  ELSE IF (a = "rate_limit" \/ ~IsHttpError(a))
                          /\ attempt < delete_max_retries - 1
                       THEN /\ call' = Retried(a, IF a = "rate_limit" THEN 2 ELSE 1)
                            /\ attempt' = attempt + 1
                       ELSE call' = Returned("False", a) /\ UNCHANGED attempt
               /\ videos' = (IF a = "ok" THEN { v \in videos : v.id # existing } ELSE videos)
          /\ UNCHANGED existing
    /\ UNCHANGED << procs, ui, cfg, lim, remote, local, runs, faults, pc,
                    local_images, gd_images, new_images, g, prev >>

\* The remote calls on their own: a timelapse folder of at most MaxInitVideos
\* videos at first, MaxCalls calls one after the other.
InitCalls ==
    /\ cfg = [ rootSet |-> TRUE, sync |-> TRUE, delPrev |-> TRUE, cleanupUnused |-> TRUE,
               maxImages |-> 1, maxKeep |-> 1, pageLimit |-> 1 ]
    /\ lim = [ names |-> {}, captures |-> 0, seeds |-> 0, videos |-> MaxInitVideos,
               runs |-> 0, faults |-> 0, calls |-> MaxCalls ]
    /\ Quiescent

NextCalls ==
    \/ call.op = "none" /\ SeedVideo
    \/ VideoRemoved
    \/ Invoke
    \/ Authenticate
    \/ VerifyFolderAccess
    \/ ListSubfolders
    \/ UploadVideo
    \/ DeleteSpecific
    \/ DeleteLatest

SpecCalls ==
    InitCalls /\ [][NextCalls]_vars

(* ----------------- runs and calls that must return -------------------- *)
\* the bounds of the behaviours checked for termination: images captured, runs
\* of main(), failures in them, and calls made on their own afterwards
MaxEndCapture == 2

MaxEndRuns == 1

MaxEndFaults == 1

MaxEndCalls == 1

\* get_google_drive_images is called on the remote image folder.
InvokeListing ==
    /\ pc = "idle"
    /\ call.op = "none" \/ call.result # "none"
    /\ call.n < lim.calls
    /\ call' = [NoCall EXCEPT !.op = "get_google_drive_images", !.phase = "page",
                              !.n = call.n + 1]
    /\ gd_images' = << >>
    /\ existing' = 0
    /\ attempt' = 0
    /\ UNCHANGED << procs, ui, cfg, lim, stores, runs, faults, pc,
                    local_images, new_images, g, prev >>

\* get_google_drive_images: one round of its while loop.  The store hands out
\* the objects page after page in one order (here the order of their times),
\* the page token standing for the place reached; a page carries a
\* nextPageToken when objects remain after it.  The loop breaks when the page
\* has no token and when the fetch raises.
GetGoogleDriveImages ==
    /\ call.op = "get_google_drive_images" /\ call.result = "none"
    /\ \E a \in {"ok"} \cup CallErrors :
         IF a = "ok"
         THEN LET ord == SortByMtime(remote)
                  from == Len(gd_images) + 1
                  upto == Min(Len(gd_images) + cfg.pageLimit, Len(ord))
                  nextPageToken == upto < Len(ord)
              IN  /\ gd_images' = gd_images \o SubSeq(ord, from, upto)
                  /\ call' = (IF nextPageToken
                              THEN [call EXCEPT !.tries = @ + 1, !.errs = Append(@, a)]
                              ELSE Returned("images", a))
         ELSE /\ call' = Returned("images", a)
              /\ UNCHANGED gd_images
    /\ UNCHANGED << procs, ui, cfg, lim, stores, runs, faults, pc,
                    local_images, new_images, existing, attempt, g, prev >>

\* the rounds of the functions called on their own: each returns when the
\* request it makes returns
CallStep ==
    \/ Authenticate
    \/ VerifyFolderAccess
    \/ ListSubfolders
    \/ UploadVideo
    \/ DeleteSpecific
    \/ DeleteLatest
    \/ GetGoogleDriveImages

\* one configuration with room for two images and pages of one object, so that
\* a listing of the remote image folder takes two pages
InitEnd ==
    /\ cfg = [ rootSet |-> TRUE, sync |-> TRUE, delPrev |-> TRUE, cleanupUnused |-> TRUE,
               maxImages |-> 2, maxKeep |-> 2, pageLimit |-> 1 ]
    /\ lim = [ names |-> { <<"a", "jpg">> }, captures |-> MaxEndCapture, seeds |-> 1,
               videos |-> MaxInitVideos, runs |-> MaxEndRuns,
               faults |-> MaxEndFaults, calls |-> MaxEndCalls ]
    /\ Quiescent

\* runs of main(), then calls of the functions on their own
NextEnd ==
    \/ Capture
    \/ SeedLocal
    \/ SeedVideo
    \/ StartRun
    \/ Exit
    \/ Discover
    \/ SyncList
    \/ SyncDownload
    \/ SyncLocal
    \/ SyncRemote
    \/ NoteExisting
    \/ Encode
    \/ Upload
    \/ DeleteOld
    \/ CleanupUnused
    \/ Overflow
    \/ Summary
    \/ runs = lim.runs /\ Invoke
    \/ runs = lim.runs /\ InvokeListing
    \/ VideoRemoved
    \/ Authenticate
    \/ VerifyFolderAccess
    \/ ListSubfolders
    \/ UploadVideo
    \/ DeleteSpecific
    \/ DeleteLatest
    \/ GetGoogleDriveImages

\* a started run keeps taking steps and a function called keeps going round
SpecEnd ==
    InitEnd /\ [][NextEnd]_vars /\ WF_vars(MainStep) /\ WF_vars(CallStep)

(* ------------------ capacity enforcement on its own ------------------- *)
\* cleanup_old_images, cleanup_google_drive_overflow and
\* cleanup_overflow_images, each called on its own over a mirror and a
\* container that other processes use at the same time.

\* what the deletion of one entry can do: delete it ("ok"); raise because the
\* entry is no longer there, someone else having removed it since the listing
\* ("gone": FileNotFoundError, HttpError 404); raise for another reason, the
\* entry staying where it is ("error")
DeleteOutcomes ==
    {"ok", "gone", "error"}

\* removed_count: incremented after each deletion that did not raise
RemovedCount(out) ==
    Cardinality({ i \in DOMAIN out : out[i] = "ok" })

\* the store after the pass over rm with the outcomes out
AfterPass(store, rm, out) ==
    DeleteAll(store, rm, { i \in DOMAIN rm : out[i] = "error" })

\* the outcomes a pass over rm can have
PassOutcomes(rm) ==
    [ DOMAIN rm -> DeleteOutcomes ]

\* len(get_google_drive_images(...)): the whole container, or the pages
\* fetched before a page failed
RemoteCounts(objs, limit) ==
    { Len(l) : l \in PartialListings(SortByMtime(objs), limit) } \cup { Cardinality(objs) }

\* the call of pass op is over: the entries it went through, the outcome of
\* each deletion, and what it returned
Passed(op, rmLocal, outLocal, rmGd, outGd, ret) ==
    [ NoCall EXCEPT !.op = op, !.n = call.n + 1, !.result = "returned",
                    !.rm = [local |-> rmLocal, gd |-> rmGd],
                    !.out = [local |-> outLocal, gd |-> outGd],
                    !.ret = ret ]

\* cleanup_old_images(get_local_storage_info_by_domain_camera(...), max_images)
CleanupOldImages ==
    /\ pc = "idle"
    /\ call.n < lim.calls
    /\ LET rm == OverflowOf(LocalInfoFiles(local), cfg.maxImages)
       IN  \E out \in PassOutcomes(rm) :
             /\ local' = AfterPass(local, rm, out)
             /\ call' = Passed("cleanup_old_images", rm, out, << >>, << >>,
                               [local_removed |-> RemovedCount(out), gd_removed |-> 0])
    /\ UNCHANGED << procs, ui, cfg, lim, remote, videos, runs, faults, pc,
                    local_images, gd_images, new_images, existing, attempt, g, prev >>

\* cleanup_google_drive_overflow(service, image_folder_id, max_images)
CleanupGoogleDriveOverflow ==
    /\ pc = "idle"
    /\ call.n < lim.calls
    /\ \/ LET rm == OverflowOf(RemoteOverflowListing(remote, cfg.pageLimit), cfg.maxImages)
          IN  \E out \in PassOutcomes(rm) :
                /\ remote' = AfterPass(remote, rm, out)
                /\ call' = Passed("cleanup_google_drive_overflow", << >>, << >>, rm, out,
                                  [local_removed |-> 0, gd_removed |-> RemovedCount(out)])
       \/ /\ call' = Passed("cleanup_google_drive_overflow", << >>, << >>, << >>, << >>,
                            [local_removed |-> 0, gd_removed |-> 0])
          /\ UNCHANGED remote
    /\ UNCHANGED << procs, ui, cfg, lim, local, videos, runs, faults, pc,
                    local_images, gd_images, new_images, existing, attempt, g, prev >>

\* cleanup_overflow_images(service, image_folder_id, domain, camera, max_images)
CleanupOverflowImages ==
    /\ pc = "idle"
    /\ call.n < lim.calls
    /\ LET local_overflow == Max0(Len(LocalInfoFiles(local)) - cfg.maxImages)
           rmLocal == OverflowOf(LocalInfoFiles(local), cfg.maxImages)
       IN  \E outLocal \in PassOutcomes(rmLocal), n \in RemoteCounts(remote, cfg.pageLimit) :
             LET gd_overflow == Max0(n - cfg.maxImages)
                 rmGd == IF gd_overflow > 0
                         THEN OverflowOf(RemoteOverflowListing(remote, cfg.pageLimit),
                                         cfg.maxImages)
                         ELSE << >>
             IN  \E outGd \in PassOutcomes(rmGd) :
                   /\ local' = AfterPass(local, rmLocal, outLocal)
                   /\ remote' = AfterPass(remote, rmGd, outGd)
                   /\ call' = Passed("cleanup_overflow_images", rmLocal, outLocal, rmGd, outGd,
                                     [local_removed |-> local_overflow,
                                      gd_removed |-> gd_overflow])
    /\ UNCHANGED << procs, ui, cfg, lim, videos, runs, faults, pc,
                    local_images, gd_images, new_images, existing, attempt, g, prev >>

\* Capacity enforcement on its own: a mirror and a container of at most
\* MaxEnforceEntries image entries each, every maximum below that and every
\* page size up to it.
InitEnforce ==
    /\ cfg \in [ rootSet : {TRUE}, sync : {TRUE}, delPrev : {TRUE}, cleanupUnused : {TRUE},
                 maxImages : 1..(MaxEnforceEntries - 1), maxKeep : {1},
                 pageLimit : 1..MaxEnforceEntries ]
    /\ lim = [ names |-> { nm \in Names : IsImageFile(nm) },
               captures |-> MaxEnforceEntries, seeds |-> MaxEnforceEntries,
               videos |-> 0, runs |-> 1, faults |-> 0, calls |-> MaxEnforceCalls ]
    /\ Quiescent

NextEnforce ==
    \/ Capture
    \/ SeedLocal
    \/ CleanupOldImages
    \/ CleanupGoogleDriveOverflow
    \/ CleanupOverflowImages

SpecEnforce ==
    InitEnforce /\ [][NextEnforce]_vars

(* ------------------- runs of main() at the same time ------------------ *)
\* Several processes run main() on the same partition, their steps
\* interleaved.  Of main's steps only step 3 reads the timelapse folder and
\* only steps 5 and 6 change it; the steps on images are left out.  Each
\* process has its position, its existing_video_info (the id, 0 for None) and
\* the id of the video it uploaded (0 for none).
MaxProcs == 2

MaxProcRuns == 3

NoProc ==
    [ pc |-> "idle", existing |-> 0, uploaded |-> 0 ]

InitProcs ==
    /\ cfg = [ rootSet |-> TRUE, sync |-> TRUE, delPrev |-> TRUE, cleanupUnused |-> TRUE,
               maxImages |-> 1, maxKeep |-> 1, pageLimit |-> 1 ]
    /\ lim = [ names |-> {}, captures |-> 0, seeds |-> 0, videos |-> MaxInitVideos,
               runs |-> MaxProcRuns, faults |-> 0, calls |-> 0 ]
    /\ remote = {}
    /\ local = {}
    /\ videos = {}
    /\ runs = 0
    /\ faults = 0
    /\ pc = "idle"
    /\ local_images = << >>
    /\ gd_images = << >>
    /\ new_images = << >>
    /\ existing = 0
    /\ attempt = 0
    /\ g = NoHistory
    /\ prev = [synced |-> FALSE, quiet |-> FALSE]
    /\ call = NoCall
    /\ procs = [ p \in 1..MaxProcs |-> NoProc ]
    /\ ui = NoSearch

\* main() is invoked in process p.
ProcStart(p) ==
    /\ procs[p].pc = "idle"
    /\ runs < lim.runs
    /\ runs' = runs + 1
    /\ procs' = [procs EXCEPT ![p] = [NoProc EXCEPT !.pc = "note"]]
    /\ UNCHANGED << ui, call, cfg, lim, stores, faults, pc,
                    local_images, gd_images, new_images, existing, attempt, g, prev >>

\* (mutation of ProcNote: the video found is deleted at once)
ProcNoteDeleteFirst(p) ==
    /\ procs[p].pc = "note"
    /\ procs' = [procs EXCEPT ![p] = [@ EXCEPT !.pc = "encode",
                                               !.existing = LatestVideoId(videos)]]
    /\ videos' = { v \in videos : v.id # LatestVideoId(videos) }
    /\ UNCHANGED << ui, call, cfg, lim, remote, local, runs, faults, pc,
                    local_images, gd_images, new_images, existing, attempt, g, prev >>

\* Step 3 in process p: get_latest_timelapse_video_info, None when the
\* permission test or the listing fails
ProcNote(p) ==
    /\ procs[p].pc = "note"
    /\ \E found \in {0} \cup (IF cfg.delPrev THEN {LatestVideoId(videos)} ELSE {}) :
         procs' = [procs EXCEPT ![p] = [@ EXCEPT !.pc = "encode", !.existing = found]]
    /\ UNCHANGED << ui, call, cfg, lim, stores, runs, faults, pc,
                    local_images, gd_images, new_images, existing, attempt, g, prev >>

\* Step 4 in process p: create_video returns True or False
ProcEncode(p) ==
    /\ procs[p].pc = "encode"
    /\ \E ok \in BOOLEAN :
         procs' = [procs EXCEPT ![p] = [@ EXCEPT !.pc = IF ok THEN "upload" ELSE "done"]]
    /\ UNCHANGED << ui, call, cfg, lim, stores, runs, faults, pc,
                    local_images, gd_images, new_images, existing, attempt, g, prev >>

\* Step 5 in process p: upload_video returns True, the new video being in the
\* folder, or raises
ProcUpload(p) ==
    /\ procs[p].pc = "upload"
    /\ \/ /\ videos' = videos \cup { [id |-> Fresh(videos), mtime |-> Fresh(videos)] }
          /\ procs' = [procs EXCEPT ![p] = [@ EXCEPT !.pc = "delete_old",
                                                     !.uploaded = Fresh(videos)]]
       \/ /\ procs' = [procs EXCEPT ![p] = [@ EXCEPT !.pc = "done"]]
          /\ UNCHANGED videos
    /\ UNCHANGED << ui, call, cfg, lim, remote, local, runs, faults, pc,
                    local_images, gd_images, new_images, existing, attempt, g, prev >>

\* Step 6 in process p: delete_specific_timelapse_video on the video noted; a
\* video that is no longer there counts as deleted; a failure is only logged
ProcDeleteOld(p) ==
    /\ procs[p].pc = "delete_old"
    /\ IF cfg.delPrev /\ procs[p].existing # 0
       THEN \/ videos' = { v \in videos : v.id # procs[p].existing }
            \/ UNCHANGED videos
       ELSE UNCHANGED videos
    /\ procs' = [procs EXCEPT ![p] = [@ EXCEPT !.pc = "done"]]
    /\ UNCHANGED << ui, call, cfg, lim, remote, local, runs, faults, pc,
                    local_images, gd_images, new_images, existing, attempt, g, prev >>

\* Process p has exited.
ProcExit(p) ==
    /\ procs[p].pc = "done"
    /\ procs' = [procs EXCEPT ![p] = NoProc]
    /\ UNCHANGED << ui, call, cfg, lim, stores, runs, faults, pc,
                    local_images, gd_images, new_images, existing, attempt, g, prev >>

NextProcs ==
    \/ SeedVideo
    \/ \E p \in DOMAIN procs : ProcStart(p)
    \/ \E p \in DOMAIN procs : ProcNote(p)
    \/ \E p \in DOMAIN procs : ProcEncode(p)
    \/ \E p \in DOMAIN procs : ProcUpload(p)
    \/ \E p \in DOMAIN procs : ProcDeleteOld(p)
    \/ \E p \in DOMAIN procs : ProcExit(p)

SpecProcs ==
    InitProcs /\ [][NextProcs]_vars

(* --------------------------- the dashboard ---------------------------- *)
\* find_timelapse_videos of the dashboard, over a tree of folders: the root
\* holds domain folders, a domain folder camera folders, a camera folder the
\* folders named 'timelapse', and each of these holds a video or none.  The
\* tree is a sequence of domains, a domain a sequence of cameras, a camera a
\* sequence of booleans (the timelapse folder holds a video).
MaxDomains == 2

MaxCameras == 2

MaxTimelapse == 2

SeqsUpTo(S, n) ==
    UNION { [1..k -> S] : k \in 0..n }

Trees ==
    SeqsUpTo(SeqsUpTo(SeqsUpTo(BOOLEAN, MaxTimelapse), MaxCameras), MaxDomains)

RECURSIVE SearchTimelapses(_, _, _, _)
\* the loop over timelapse_folders from folder t on: the video of the first
\* folder that holds one is appended and the loop is left
SearchTimelapses(timelapse_folders, d, c, t) ==
    IF t > Len(timelapse_folders) THEN << >>
    ELSE IF timelapse_folders[t]
         THEN << [domain |-> d, camera |-> c, timelapse |-> t] >>
         ELSE SearchTimelapses(timelapse_folders, d, c, t + 1)

RECURSIVE SearchCameras(_, _, _, _)
\* the loop over camera_folders from camera c on: it is left after the first
\* camera at whose end all_videos is not empty
SearchCameras(camera_folders, d, c, all_videos) ==
    IF c > Len(camera_folders) THEN all_videos
    ELSE LET found == all_videos \o SearchTimelapses(camera_folders[c], d, c, 1)
         IN  IF found # << >> THEN found
             ELSE SearchCameras(camera_folders, d, c + 1, found)

RECURSIVE SearchDomains(_, _, _)
\* the loop over domain_folders from domain d on: it has no break
SearchDomains(domain_folders, d, all_videos) ==
    IF d > Len(domain_folders) THEN all_videos
    ELSE SearchDomains(domain_folders, d + 1,
                       SearchCameras(domain_folders[d], d, 1, all_videos))

\* find_timelapse_videos when no request fails
find_timelapse_videos(domain_folders) ==
    IF domain_folders = << >> THEN << >>
    ELSE SearchDomains(domain_folders, 1, << >>)

InitDashboard ==
    /\ cfg = [ rootSet |-> TRUE, sync |-> TRUE, delPrev |-> TRUE, cleanupUnused |-> TRUE,
               maxImages |-> 1, maxKeep |-> 1, pageLimit |-> 1 ]
    /\ lim = [ names |-> {}, captures |-> 0, seeds |-> 0, videos |-> 0,
               runs |-> 0, faults |-> 0, calls |-> 0 ]
    /\ remote = {}
    /\ local = {}
    /\ videos = {}
    /\ runs = 0
    /\ faults = 0
    /\ pc = "idle"
    /\ local_images = << >>
    /\ gd_images = << >>
    /\ new_images = << >>
    /\ existing = 0
    /\ attempt = 0
    /\ g = NoHistory
    /\ prev = [synced |-> FALSE, quiet |-> FALSE]
    /\ call = NoCall
    /\ procs = << >>
    /\ \E tree \in Trees : ui = [NoSearch EXCEPT !.tree = tree]

\* The dashboard runs find_timelapse_videos: the list found, or the empty list
\* when the root folder is not accessible or a request raises.
FindTimelapseVideos ==
    /\ ~ui.searched
    /\ \E failed \in BOOLEAN :
         ui' = [ui EXCEPT !.searched = TRUE,
                          !.all_videos = IF failed THEN << >>
                                         ELSE find_timelapse_videos(ui.tree)]
    /\ UNCHANGED << procs, call, cfg, lim, stores, runs, faults, pc,
                    local_images, gd_images, new_images, existing, attempt, g, prev >>

NextDashboard ==
    FindTimelapseVideos

SpecDashboard ==
    InitDashboard /\ [][NextDashboard]_vars

(* ------------------------------ claims -------------------------------- *)
RunLog ==
    Range(g.log)

\* C1: in every run no video is deleted, and no delete call on a video is made,
\* before the upload of the new video has succeeded; when the upload fails the
\* videos published before the run are all still there at the end of the run.
C1_UploadBeforeDelete ==
    (pc # "idle" /\ "upload" \notin RunLog)
        => (g.videos0 \subseteq videos /\ "delete_call" \notin RunLog)

\* C1 witness: a run with previous-video deletion enabled has noted an existing
\* video, its upload failed after the last retry, and the run is over.
C1_Witness ==
    /\ pc = "done"
    /\ cfg.delPrev
    /\ existing # 0
    /\ attempt = max_retries - 1
    /\ "upload_failed" \in RunLog

\* C2: a timelapse folder that holds a video holds one after every step of
\* every run, whatever failures occur.
C2_NeverEmptied ==
    [][videos # {} => videos' # {}]_vars

\* C2 witness: the second of two runs has uploaded its video and deleted the
\* video of the first run, after a failure in one of the runs.
C2_Witness ==
    /\ pc = "done"
    /\ runs = 2
    /\ faults > 0
    /\ "delete_call" \in RunLog
    /\ Cardinality(videos) = 1

\* the image entries of a mirror directory (the files its listing reports)
ImageEntries(dir) ==
    { f \in dir : IsImageFile(f.name) }

\* the run so far met no failure of any call
NoFailureInRun ==
    faults = g.faults0

\* C3: at the end of a run that went through every step, the final capacity
\* enforcement included, and in which every listing call and every deletion
\* call succeeded, the local mirror holds at most maxCount image entries and
\* the remote image container holds at most maxCount objects.
C3_CapacityAfterRun ==
    (pc = "done" /\ NoFailureInRun /\ "final_remote_enforce" \in RunLog)
        => /\ Cardinality(ImageEntries(local)) <= cfg.maxImages
           /\ Cardinality(remote) <= cfg.maxImages

\* C4: a local capacity enforcement step whose deletions all succeed leaves a
\* mirror of at most maxCount image entries untouched; of a larger one it keeps
\* exactly maxCount image entries, every one of them modified no earlier than
\* every entry it removes, and it touches no other file.
C4_LocalEnforcement ==
    [][ (pc \in {"sync_local", "overflow"} /\ faults' = faults)
          => LET before == ImageEntries(local)
                 kept == ImageEntries(local')
             IN  /\ local' \subseteq local
                 /\ local \ before = local' \ kept
                 /\ Cardinality(before) <= cfg.maxImages => local' = local
                 /\ Cardinality(before) > cfg.maxImages =>
                      /\ Cardinality(kept) = cfg.maxImages
                      /\ \A k \in kept, r \in before \ kept : r.mtime <= k.mtime ]_vars

\* C4 witness: local enforcement has just removed entries of a mirror that held
\* more than maxCount, no deletion failed, and maxCount entries remain.
C4_Witness ==
    /\ pc = "sync_remote"
    /\ NoFailureInRun
    /\ g.evLocal > 0
    /\ Cardinality(ImageEntries(local)) = cfg.maxImages

\* C5: a remote capacity enforcement step in which every call succeeds deletes
\* exactly max(0, count - maxCount) objects, count being the number of image
\* objects of the whole remote container, and every object it deletes is not
\* newer than any object it retains.
C5_RemoteEnforcement ==
    [][ (pc = "sync_remote" /\ faults' = faults)
          => /\ remote' \subseteq remote
             /\ Cardinality(remote \ remote')
                  = Max0(Cardinality(remote) - cfg.maxImages)
             /\ \A d \in remote \ remote', k \in remote' : d.mtime <= k.mtime ]_vars

\* C6: the objects identified as new are exactly the objects of the remote
\* listing whose stem is not the stem of any local entry, each once and in the
\* order of the listing; an object a.jpg is not new when the mirror lists a.png.
C6_NewByStem ==
    pc = "sync_download" =>
        LET stems == { Stem(f.name) : f \in ImageEntries(local) }
            PosInListing(x) == CHOOSE i \in DOMAIN gd_images : gd_images[i] = x
        IN  /\ \A i \in DOMAIN gd_images :
                 (gd_images[i] \in Range(new_images))
                     <=> (Stem(gd_images[i].name) \notin stems)
            /\ Range(new_images) \subseteq Range(gd_images)
            /\ \A i, j \in DOMAIN new_images :
                 i < j => PosInListing(new_images[i]) < PosInListing(new_images[j])
            /\ (\E f \in ImageEntries(local) : f.name = <<"a", "png">>)
                 => \A i \in DOMAIN new_images : new_images[i].name # <<"a", "jpg">>

\* C6 witness: the listing holds a.jpg and another object, the mirror lists
\* a.png, and the other object alone is identified as new.
C6_Witness ==
    /\ pc = "sync_download"
    /\ \E i \in DOMAIN gd_images : gd_images[i].name = <<"a", "jpg">>
    /\ \E f \in ImageEntries(local) : f.name = <<"a", "png">>
    /\ Len(new_images) = 1
    /\ Len(gd_images) = 2

\* the run is the second of two runs in a row: the run before it went through
\* synchronisation to its end and the producer added no object since
SecondRunInARow ==
    prev.synced /\ prev.quiet

\* C7: when no call of either run failed, every remote object is named with an
\* image extension and the remote container received no object since the run
\* before, the synchronisation of the second run identifies no new object and
\* leaves every file of the mirror as it was when the run started.
C7_SecondRunIdle ==
    ( /\ pc \in {"sync_download", "sync_local", "sync_remote", "note"}
      /\ SecondRunInARow
      /\ faults = 0
      /\ \A o \in remote : IsImageFile(o.name) )
        => (new_images = << >> /\ local = g.local0)

NothingEvictedYet ==
    /\ g.evLocal = 0
    /\ g.evRemote = 0
    /\ \A f \in g.local0 : \E h \in local : h.name = f.name
    /\ Range(gd_images) \subseteq remote

\* every new object whose download succeeded is in the mirror, whatever the
\* number of entries the mirror held
AllNewObjectsStored ==
    g.dlFail = 0 => \A i \in DOMAIN new_images : \E f \in local : f.name = new_images[i].name

Steps ==
    { "list", "download", "local_enforce", "remote_enforce", "build", "upload",
      "delete_call", "unused_cleanup", "final_local_enforce", "final_remote_enforce" }

\* the steps logged so far occur in the order given by rank, and none is logged
\* without the step before it: the build follows the end of synchronisation,
\* the upload the build, the cleanups the upload
LogOrderedBy(rank) ==
    /\ \A i, j \in DOMAIN g.log :
         (i < j /\ g.log[i] \in Steps /\ g.log[j] \in Steps)
             => rank[g.log[i]] <= rank[g.log[j]]
    /\ "build" \in RunLog => ("remote_enforce" \in RunLog \/ "sync_skipped" \in RunLog)
    /\ "upload" \in RunLog => "build" \in RunLog
    /\ "unused_cleanup" \in RunLog => "upload" \in RunLog
    /\ "final_local_enforce" \in RunLog => "upload" \in RunLog

\* C10 (as stated): within a run the steps occur in the order reconcile (list,
\* diff, download), local capacity enforcement, remote capacity enforcement,
\* artifact build, upload and replacement, unused-remote-input cleanup, and no
\* step is executed out of this order.
C10_StepOrder ==
    LogOrderedBy([ t \in Steps |->
        CASE t \in {"list", "download"} -> 1
          [] t \in {"local_enforce", "final_local_enforce"} -> 2
          [] t \in {"remote_enforce", "final_remote_enforce"} -> 3
          [] t = "build" -> 4
          [] t \in {"upload", "delete_call"} -> 5
          [] OTHER -> 6 ])

\* C10 (amended): within a run the steps occur in the order reconcile, local
\* capacity enforcement, remote capacity enforcement, artifact build, upload
\* and replacement, unused-remote-input cleanup, and then a second local and a
\* second remote capacity enforcement; no step is executed out of this order.
C10_StepOrderWithFinalPass ==
    LogOrderedBy([ t \in Steps |->
        CASE t \in {"list", "download"} -> 1
          [] t = "local_enforce" -> 2
          [] t = "remote_enforce" -> 3
          [] t = "build" -> 4
          [] t \in {"upload", "delete_call"} -> 5
          [] t = "unused_cleanup" -> 6
          [] t = "final_local_enforce" -> 7
          [] OTHER -> 8 ])

\* C10 witness: a run has gone through every step, the replacement of the old
\* video and both cleanups included.
C10_Witness ==
    /\ pc = "done"
    /\ Steps \subseteq RunLog

\* C11: the input sequence handed to the encoder is the mirror's image entries
\* as they exist when building starts, sorted by name and truncated to the
\* first cap entries: every surviving entry downloaded in the run is in it (up
\* to the cap) and no entry evicted in the run is.
C11_InputIsCurrentMirror ==
    pc = "encode" => ImagePaths = Take(AllImagesFromFolder(local), cfg.maxImages)

\* the entries of the mirror that were there when the run started
PreExisting(dir) ==
    { f \in ImageEntries(dir) : f \in g.local0 }

\* in the step, an entry downloaded in this run is evicted only if every
\* pre-existing entry is evicted with it
PreExistingEvictedFirst ==
    (\E e \in local \ local' : e \notin g.local0)
        => PreExisting(local) \cap local' = {}

C13_EncodeFailureStopsRun ==
    "build_failed" \in RunLog
        => /\ videos = g.videos0
           /\ RunLog \cap {"upload", "upload_failed", "delete_call", "unused_cleanup"} = {}
           /\ pc \in {"summary", "done"}

\* C13 witness: a run with deletion and unused-input cleanup enabled had noted
\* an existing video, its encoder failed, and the run is over.
C13_Witness ==
    /\ pc = "done"
    /\ "build_failed" \in RunLog
    /\ existing # 0
    /\ cfg.cleanupUnused
    /\ cfg.sync

\* C14: when the upload succeeded and the deletion of the old video failed,
\* the new video stays in the folder, the run goes on to the unused-input
\* cleanup (which runs when it is enabled) and ends with its final summary.
C14_DeleteFailureOnlyLogged ==
    "delete_failed" \in RunLog
        => /\ "upload" \in RunLog
           /\ \E v \in videos : v \notin g.videos0
           /\ pc \in {"cleanup_unused", "overflow", "summary", "done"}
           /\ (pc # "cleanup_unused" /\ cfg.cleanupUnused /\ cfg.sync)
                => "unused_cleanup" \in RunLog
           /\ pc = "done" => "summary" \in RunLog

\* C14 witness: the deletion of the old video was refused for lack of
\* permission after a successful upload, the unused-input cleanup ran
\* afterwards and the run is over.
C14_Witness ==
    /\ pc = "done"
    /\ "delete_failed" \in RunLog
    /\ g.delErr = "forbidden"
    /\ "unused_cleanup" \in RunLog

\* the run is over, its upload succeeded and it deleted the old video
ReplacedOldVideo ==
    /\ pc = "done"
    /\ cfg.delPrev
    /\ "upload" \in RunLog
    /\ "delete_call" \in RunLog
    /\ "delete_failed" \notin RunLog

\* C15 (as stated): at the end of a run whose upload and deletion of the old
\* video both succeeded, the timelapse folder holds one video, the new one,
\* whatever number of videos it held before the run.
C15_AtMostOneArtifact ==
    ReplacedOldVideo
        => (Cardinality(videos) = 1 /\ videos \cap g.videos0 = {})

\* C15 (amended): at the end of a run whose upload and deletion of the old
\* video both succeeded, the timelapse folder holds the new video and the
\* videos it held before the run except the most recently modified one; it
\* holds the new video alone when it held one video before the run.
C15_LatestReplaced ==
    ReplacedOldVideo
        => /\ Cardinality(videos \ g.videos0) = 1
           /\ Cardinality(g.videos0 \ videos) = 1
           /\ \A d \in g.videos0 \ videos, k \in g.videos0 : k.mtime <= d.mtime
           /\ Cardinality(g.videos0) = 1 => Cardinality(videos) = 1

\* C15 witness: the folder held two videos before the run; the run uploaded
\* its video and deleted the newer of the two, and two videos remain.
C15_Witness ==
    /\ ReplacedOldVideo
    /\ Cardinality(g.videos0) = 2
    /\ Cardinality(videos) = 2

\* C16: an unused-input cleanup step, whatever the container holds, whatever
\* the used set and the number of objects to keep, and whether or not its
\* deletions succeed, deletes no object whose name is in the input set of the
\* video just built.
C16_UsedNeverDeleted ==
    [][ (pc = "cleanup_unused")
          => (\A d \in remote \ remote' : d.name \notin UsedImageNames) ]_vars

\* C16 witness: the cleanup has deleted an object and the container still
\* holds an object that the video's input set names.
C16_Witness ==
    /\ pc = "overflow"
    /\ g.evUnused > 0
    /\ \E o \in remote : o.name \in UsedImageNames

\* C17: an unused-input cleanup step in which every call succeeds deletes
\* exactly min(max(0, total - maxRemoteKeep), number of unused objects)
\* objects, total being the number of image objects of the whole container,
\* and the objects it deletes are the oldest unused ones.
C17_UnusedCleanupCount ==
    [][ (pc = "cleanup_unused" /\ cfg.cleanupUnused /\ cfg.sync /\ faults' = faults)
          => LET unused == { o \in remote : o.name \notin UsedImageNames }
                 deleted == remote \ remote'
             IN  /\ deleted \subseteq unused
                 /\ Cardinality(deleted)
                      = Min(Max0(Cardinality(remote) - cfg.maxKeep), Cardinality(unused))
                 /\ \A d \in deleted, u \in unused \ deleted : d.mtime <= u.mtime ]_vars

\* the steps of artifact replacement and of the cleanup that follows it
ReplacementSteps ==
    { "build", "build_failed", "upload", "upload_failed", "delete_call", "unused_cleanup",
      "final_local_enforce", "final_remote_enforce" }

\* C18: when synchronize_images failed, or the partition has no local image,
\* the run is over at once: nothing is encoded or uploaded, no video and no
\* remote image is deleted, and the timelapse folder is as the run found it.
C18_HaltBeforeReplacement ==
    ("sync_failed" \in RunLog \/ "no_local_images" \in RunLog)
        => /\ pc = "done"
           /\ RunLog \cap ReplacementSteps = {}
           /\ videos = g.videos0
           /\ g.evRemote = 0
           /\ g.evUnused = 0

\* C18 witness: synchronisation failed in a run whose timelapse folder holds a
\* video, and the run is over.
C18_Witness ==
    /\ pc = "done"
    /\ "sync_failed" \in RunLog
    /\ new_images # << >>
    /\ videos # {}

\* C19: after the download phase every new object has been attempted, the
\* failed ones and the ones after them included: each object whose download
\* succeeded has its file in the mirror, and the downloaded count is the
\* number of downloads that succeeded.
C19_BatchNotAborted ==
    pc = "sync_local"
        => /\ Len(g.dlOut) = Len(new_images)
           /\ \A i \in DOMAIN new_images :
                g.dlOut[i] = "ok" => \E f \in local : f.name = new_images[i].name
           /\ g.dlOk = Cardinality({ i \in DOMAIN new_images : g.dlOut[i] = "ok" })
           /\ g.dlOk + g.dlFail = Len(new_images)

\* C19 witness: of a batch of two new objects the first download failed, the
\* second succeeded and the downloaded count is one.
C19_Witness ==
    /\ pc = "sync_local"
    /\ Len(new_images) = 2
    /\ g.dlOut[1] # "ok"
    /\ g.dlOut[2] = "ok"
    /\ g.dlOk = 1
    /\ \E f \in local : f.name = new_images[2].name /\ f.whole

\* at most three attempts are made, and a successful attempt is the last one:
\* the folder holds exactly one video more
AtMostThreeAttempts ==
    /\ attempt < max_retries
    /\ "upload" \in RunLog => Cardinality(videos \ g.videos0) = 1
    /\ "upload_failed" \in RunLog => videos = g.videos0

FailureResults ==
    {"False", "raise", "[]"}

\* the request of the call that answered last
LastAnswer ==
    call.errs[Len(call.errs)]

\* C21: when folder verification, sub-folder listing or the deletion of a video
\* meets HTTP 403, that attempt is the last one: no sleep and no further
\* attempt follow it, and the function reports failure to its caller.
C21_ForbiddenOnce ==
    call.op \in {"verify_folder_access", "list_subfolders",
                 "delete_specific_timelapse_video"}
        => \A i \in DOMAIN call.errs :
             call.errs[i] = "forbidden"
                 => /\ i = Len(call.errs)
                    /\ Len(call.sleeps) < i
                    /\ call.result \in FailureResults

\* C22: in every function with a retry loop, an attempt that meets an error
\* which is neither a network error nor an HTTP error is the last one: no sleep
\* and no further attempt follow it, and the error is reported to the caller.
C22_UnclassifiedNotRetried ==
    \A i \in DOMAIN call.errs :
        call.errs[i] = "other"
            => /\ i = Len(call.errs)
               /\ Len(call.sleeps) < i
               /\ call.result \in FailureResults

\* C23: a deletion of a video that finds the video trashed or absent at its
\* check, or gets 404 from the delete call, returns True.
C23_NotFoundIsSuccess ==
    (/\ call.op \in {"delete_specific_timelapse_video", "delete_latest_timelapse_video"}
     /\ call.result # "none"
     /\ \/ call.phase \in {"check", "verify"} /\ call.check \in {"not_found", "trashed"}
        \/ call.phase \in {"delete", "retry"} /\ LastAnswer = "not_found")
        => call.result = "True"

\* no sleep follows the attempt after which the function gives up: a function
\* that has returned slept fewer times than it tried, and no loop sleeps
\* max_retries times
NoSleepAfterLastAttempt ==
    /\ Len(call.sleeps) <= max_retries - 1
    /\ Len(call.sleeps) <= call.tries
    /\ (call.result # "none" /\ call.sleeps # << >>) => Len(call.sleeps) < call.tries

\* C30 (as stated): in every retry loop the sleep that follows failed attempt
\* k is base * 2^k seconds, base being 1 or 2 for the whole loop, and no sleep
\* follows the last allowed attempt.
C30_SleepsBaseDoubling ==
    /\ \E base \in {1, 2} :
         \A i \in DOMAIN call.sleeps : call.sleeps[i] = base * (2 ^ (i - 1))
    /\ NoSleepAfterLastAttempt

\* C30 (amended): the sleep that follows failed attempt k is 2 * 2^k seconds
\* in upload_video and 2^k + 1 seconds (2, then 3) in authenticate,
\* verify_folder_access and list_subfolders; the deletion of a video sleeps at
\* most once, 2 seconds after a rate-limit answer (1 second after an error
\* that is not an HTTP error in delete_latest_timelapse_video); no sleep
\* follows the last allowed attempt.
C30_SleepsPerLoop ==
    /\ call.op = "upload_video"
         => \A i \in DOMAIN call.sleeps : call.sleeps[i] = 2 * (2 ^ (i - 1))
    /\ call.op \in {"authenticate", "verify_folder_access", "list_subfolders"}
         => \A i \in DOMAIN call.sleeps : call.sleeps[i] = (2 ^ (i - 1)) + 1
    /\ call.op = "delete_specific_timelapse_video" => call.sleeps \in {<< >>, <<2>>}
    /\ call.op = "delete_latest_timelapse_video" => call.sleeps \in {<< >>, <<1>>, <<2>>}
    /\ NoSleepAfterLastAttempt

\* C30 witness: verify_folder_access has returned False after three failed
\* attempts, having slept after the first and after the second.
C30_Witness ==
    /\ call.op = "verify_folder_access"
    /\ call.result = "False"
    /\ call.tries = max_retries
    /\ Len(call.sleeps) = 2

\* the entries of a pass with one of the outcomes in kinds
CountOutcomes(out, kinds) ==
    Cardinality({ i \in DOMAIN out : out[i] \in kinds })

\* C24: the removed count that cleanup_old_images and
\* cleanup_google_drive_overflow return includes the overflow entries that
\* were already gone when their deletion was tried.
C24_GoneCountsAsRemoved ==
    call.op \in {"cleanup_old_images", "cleanup_google_drive_overflow"}
        => /\ call.ret.local_removed = CountOutcomes(call.out.local, {"ok", "gone"})
           /\ call.ret.gd_removed = CountOutcomes(call.out.gd, {"ok", "gone"})

\* C25: after a pass of capacity enforcement every overflow entry whose own
\* deletion did not fail is deleted, whatever happened to the entries before
\* it, and the counts the pass returns (those of cleanup_overflow_images
\* included) are the numbers of entries it deleted.
C25_FailureDoesNotStopPass ==
    call.op \in {"cleanup_old_images", "cleanup_google_drive_overflow",
                 "cleanup_overflow_images"}
        => /\ \A i \in DOMAIN call.rm.local :
                call.out.local[i] = "ok" => call.rm.local[i] \notin local
           /\ \A i \in DOMAIN call.rm.gd :
                call.out.gd[i] = "ok" => call.rm.gd[i] \notin remote
           /\ call.ret.local_removed = CountOutcomes(call.out.local, {"ok"})
           /\ call.ret.gd_removed = CountOutcomes(call.out.gd, {"ok"})

\* C26: the remote listing a decision is taken from holds every image object
\* of the container, however many result pages that takes: the listing of the
\* reconciliation when no page failed, the listing remote capacity enforcement
\* takes when the container is over the maximum, and the listing of the
\* unused-input cleanup.
C26_ListingsComplete ==
    /\ (pc = "sync_download" /\ g.listedAll) => Range(gd_images) = remote
    /\ (pc = "sync_remote" /\ Cardinality(remote) > cfg.maxImages)
         => Range(RemoteOverflowListing(remote, cfg.pageLimit)) = remote
    /\ (pc = "cleanup_unused" /\ cfg.cleanupUnused /\ cfg.sync)
         => Range(FirstPageDesc(remote, cfg.pageLimit)) = remote

\* C27: synchronize_images goes on from its first step, to the reconciliation
\* or to "no images, skipping", only with a listing all of whose pages were
\* fetched: a failed page is not taken for the end of the listing.
C27_ListingFailureSurfaces ==
    ("list" \in RunLog \/ "sync_skipped" \in RunLog) => g.listedAll

C29_LocalEnforcementIndependent ==
    [][ /\ (pc = "sync_local") => (remote' = remote)
        /\ (pc = "sync_remote") => (local' = local)
        /\ (/\ pc' = "done"
            /\ "sync_skipped" \in RunLog' \/ "local_enforce" \in RunLog'
            /\ ~g'.storeFault)
            => (Cardinality(ImageEntries(local')) <= cfg.maxImages) ]_vars

\* C32: with previous-video deletion disabled no step of any run removes a
\* video from the timelapse folder: the set of videos only grows.
C32_DisabledNeverDeletes ==
    [][ (~cfg.delPrev) => (videos \subseteq videos') ]_vars

\* C32 witness: previous-video deletion is disabled, the folder held a video
\* before the first run, and the second run has uploaded its video: the
\* folder holds three videos.
C32_Witness ==
    /\ ~cfg.delPrev
    /\ pc = "done"
    /\ runs = 2
    /\ "upload" \in RunLog
    /\ Cardinality(videos) = 3

\* C33: when FOLDER_A_ID is not configured a run goes from its start straight
\* to its end: it logs the missing configuration and nothing else, no call of
\* a collaborator is made or fails, and the local mirror, the remote image
\* folder and the timelapse folder stay as they are.
C33_NoRootStopsAtStartup ==
    [][ (~cfg.rootSet /\ pc # "idle")
          => /\ stores' = stores
             /\ faults' = faults
             /\ pc' \in {"done", "idle"}
             /\ RunLog' \subseteq {"no_root"} ]_vars

\* C33 witness: a run without FOLDER_A_ID is over, with files in the mirror,
\* an object in the remote image folder and a video in the timelapse folder.
C33_Witness ==
    /\ ~cfg.rootSet
    /\ pc = "done"
    /\ g.log = <<"no_root">>
    /\ local # {}
    /\ remote # {}
    /\ videos # {}

\* C38: a run with synchronisation disabled and unused-image cleanup enabled
\* whose upload succeeded has run the unused-image cleanup and the final
\* enforcement of the remote image folder.
C38_CleanupWithoutSync ==
    (pc = "done" /\ ~cfg.sync /\ cfg.cleanupUnused /\ "upload" \in RunLog)
        => ("unused_cleanup" \in RunLog /\ "final_remote_enforce" \in RunLog)

\* C34: when download_new_images has returned, no file of the local mirror
\* carries the name of an object whose download failed.
C34_FailedDownloadLeavesNoEntry ==
    pc = "sync_local"
        => \A i \in DOMAIN g.dlOut :
             g.dlOut[i] # "ok" => ~ \E f \in local : f.name = new_images[i].name

\* C36: the unused-image cleanup deletes no remote object whose stem is the
\* stem of an image used in the video.
C36_SameStemCountsAsUsed ==
    [][ (pc = "cleanup_unused")
          => \A x \in remote \ remote' :
               Stem(x.name) \notin { Stem(n) : n \in UsedImageNames } ]_vars

\* C37: a run that starts with no image in the local mirror while the remote
\* image folder holds images, and in which no call fails, ends with images in
\* the local mirror.
C37_EmptyMirrorIsReconciled ==
    (/\ pc = "done"
     /\ cfg.rootSet /\ cfg.sync
     /\ ImageEntries(g.local0) = {}
     /\ ImageEntries(remote) # {}
     /\ NoFailureInRun)
        => ImageEntries(local) # {}

\* main has selected a partition and is working on it
Processing ==
    pc \notin {"idle", "discover", "done"}

\* C31: a run that has started to process a partition goes on to log the final
\* summary, whichever step fails on the way.
C31_SummaryAlwaysLogged ==
    Processing ~> ("summary" \in RunLog)

\* a function called on its own has not returned yet
CallUnderWay ==
    call.op # "none" /\ call.result = "none"

\* C39: every run of main() ends and every function called returns; upload,
\* authentication, folder verification and sub-folder listing make at most 3
\* attempts and the deletion of the latest video at most 2; the paged listing
\* goes round again only after a page that was fetched without error and was
\* not the last one.
C39_RunsAndLoopsEnd ==
    /\ [](call.op \in {"upload_video", "authenticate", "verify_folder_access",
                       "list_subfolders"} => call.tries <= 3)
    /\ [](call.op = "delete_latest_timelapse_video" => call.tries <= 2)
    /\ []((call.op = "get_google_drive_images" /\ call.result = "none" /\ call.tries > 0)
            => /\ \A i \in DOMAIN call.errs : call.errs[i] = "ok"
               /\ Len(gd_images) < Cardinality(remote))
    /\ (pc # "idle") ~> (pc = "done")
    /\ CallUnderWay ~> (call.result # "none")

\* C39 witness: the deletion of the latest video has returned after its second
\* attempt failed, in a behaviour where a run of main() came first.
C39_Witness ==
    /\ runs = 1
    /\ call.op = "delete_latest_timelapse_video"
    /\ call.result = "False"
    /\ call.tries = 2

\* C35: with several runs of main() interleaved, a timelapse folder that holds
\* a video never becomes empty, and a video leaves the folder only in step 6
\* of a process that noted it and then uploaded its own, newer video.
C35_ConcurrentRunsKeepAVideo ==
    [][ /\ (videos # {}) => (videos' # {})
        /\ \A v \in videos \ videos' :
             \E p \in DOMAIN procs :
               /\ procs[p].pc = "delete_old" /\ procs'[p].pc = "done"
               /\ procs[p].existing = v.id
               /\ procs[p].uploaded > v.id ]_vars

\* C35 witness: two processes noted the same video, both uploaded, and both
\* went through step 6: the video noted is gone and the two new ones are there.
C35_Witness ==
    /\ procs[1].pc = "done" /\ procs[2].pc = "done"
    /\ procs[1].existing # 0
    /\ procs[1].existing = procs[2].existing
    /\ procs[1].uploaded # 0 /\ procs[2].uploaded # 0
    /\ \A v \in videos : v.id # procs[1].existing
    /\ Cardinality(videos) = 2

\* C40: find_timelapse_videos returns a list of at most one video.
C40_AtMostOneVideo ==
    ui.searched => Len(ui.all_videos) <= 1

====
